---------------------------- MODULE Spec2Model ----------------------------
(***************************************************************************)
(* Model of pslipstream.dvd.Dvd: the session (open, dispose) and the       *)
(* sector reading / decryption / backup engine (get_vob_lbas,              *)
(* create_backup, read) together with the device (pydvdcss), the volume    *)
(* descriptor (pycdlib) and the two output files it acts on.               *)
(*                                                                         *)
(* Sectors are modelled as records [lba, dec, key]: the sector's address,  *)
(* whether the device read that produced it carried READ_DECRYPT, and the  *)
(* title key that was loaded in the device at that moment (a key is named  *)
(* by the start LBA of the VOB file it belongs to, -1 when none).          *)
(***************************************************************************)
EXTENDS Integers, Sequences, FiniteSets, TLC

(***************************************************************************)
(* Bounds of the model.                                                    *)
(***************************************************************************)
MaxSectors == 4   \* discs hold 1..MaxSectors sectors (pvd.space_size)
MaxSize == 2      \* a VOB file holds 1..MaxSize sectors
MaxFiles == 2     \* /VIDEO_TS lists at most MaxFiles entries
MaxBlock == 2     \* dvdcss.BLOCK_BUFFER is 1..MaxBlock sectors
MaxCount == 3     \* direct read() calls ask for 1..MaxCount sectors
ConcSectors == 2  \* with two callers: discs hold 1..ConcSectors sectors
ConcFiles == 1    \* with two callers: at most ConcFiles entries are listed

VARIABLES
    session,            \* self.dev, self.ready, self.cdlib, self.dvdcss; the last open()
    listing,            \* cdlib: the /VIDEO_TS entries, in listing order
    space_size,         \* cdlib.pvds[0].space_size
    block_buffer,       \* dvdcss.BLOCK_BUFFER
    volume_identifier,  \* type of cdlib.pvds[0].volume_identifier: "bytes" | "str"
    reader_position,    \* self.reader_position
    vob_lba_offsets,    \* self.vob_lba_offsets: sequence of <<lba, size>>
    devPos,             \* dvdcss: the device's position
    devKey,             \* dvdcss: the title key loaded in the device
    buffer,             \* dvdcss.buffer: the sectors of the last device read
    tmpFile,            \* the file at fn_tmp
    finalFile,          \* the file at fn
    run,                \* per thread: the frame of its create_backup call
    call,               \* the last call of read(): its arguments and what it issued
    seen                \* an earlier call of read() and the sectors it returned

vars == <<session, listing, space_size, block_buffer, volume_identifier, reader_position,
          vob_lba_offsets, devPos, devKey, buffer, tmpFile, finalFile, run, call,
          seen>>

discVars == <<session, listing, space_size, block_buffer>>
deviceVars == <<devPos, devKey, buffer>>
fileVars == <<tmpFile, finalFile>>

Threads == {1, 2}

Min(a, b) == IF a < b THEN a ELSE b
Max(a, b) == IF a > b THEN a ELSE b

(***************************************************************************)
(* Dvd.read: the pure part (lines 309-352).                                *)
(***************************************************************************)

\* line 309 taken as always true: every call seeks
NeedToSeekAlways(first_lba, position) == TRUE

\* line 309 with "and first_lba != 0" for its "or first_lba == 0"
NeedToSeekNonZero(first_lba, position) == first_lba # position /\ first_lba # 0

\* line 309 without its "or first_lba == 0"
NeedToSeekMoved(first_lba, position) == first_lba # position

\* line 309
NeedToSeek(first_lba, position) == first_lba # position \/ first_lba = 0

\* line 317
TitleEnd(vob_lba_offset) == vob_lba_offset[1] + vob_lba_offset[2] - 1

\* lines 324-327 without the clipping
ClipToStartNever(first_lba, sectors, titleStart) == sectors

\* lines 324-327 clipping one sector too many
ClipToStartShort(first_lba, sectors, titleStart) ==
    IF first_lba < titleStart /\ first_lba + sectors > titleStart
    THEN titleStart - first_lba - 1
    ELSE sectors

\* lines 324-327
ClipToStart(first_lba, sectors, titleStart) ==
    IF first_lba < titleStart /\ first_lba + sectors > titleStart
    THEN titleStart - first_lba
    ELSE sectors

\* lines 329-332 with the end of the title taken as exclusive
ClipToEndExclusive(first_lba, sectors, titleEnd) ==
    IF first_lba < titleEnd /\ first_lba + sectors > titleEnd
    THEN titleEnd - first_lba
    ELSE sectors

\* lines 329-332
ClipToEnd(first_lba, sectors, titleEnd) ==
    IF first_lba < titleEnd /\ first_lba + sectors > titleEnd
    THEN titleEnd - first_lba + 1
    ELSE sectors

\* line 335
PartOfTitle(first_lba, sectors, titleStart, titleEnd) ==
    first_lba >= titleStart /\ first_lba + (sectors - 1) <= titleEnd

\* lines 315-336: one iteration of the loop over self.vob_lba_offsets
ScanTitle(st, first_lba, vob_lba_offset) ==
    LET titleStart == vob_lba_offset[1]
        titleEnd == TitleEnd(vob_lba_offset)
        entering == titleStart = first_lba
    IN  CHOOSE next \in
            {[sectors |-> s2,
              needToSeek |-> st.needToSeek \/ entering,
              enteredTitle |-> st.enteredTitle \/ entering,
              inTitle |-> st.inTitle \/ entering
                          \/ PartOfTitle(first_lba, s2, titleStart, titleEnd)] :
             s2 \in {ClipToEnd(first_lba,
                               ClipToStart(first_lba, st.sectors, titleStart),
                               titleEnd)}} : TRUE

RECURSIVE ScanTitles(_, _, _, _)
ScanTitles(st, first_lba, offsets, i) ==
    IF i > Len(offsets) THEN st
    ELSE LET next == ScanTitle(st, first_lba, offsets[i])
         IN  ScanTitles(next, first_lba, offsets, i + 1)

\* lines 309-336: what read() decides before it touches the device
ReadPlan(first_lba, sectors, position, offsets) ==
    ScanTitles([sectors |-> sectors,
                needToSeek |-> NeedToSeek(first_lba, position),
                enteredTitle |-> FALSE,
                inTitle |-> FALSE],
               first_lba, offsets, 1)

\* lines 339-343 without the branch of line 340
SeekFlagsMpeg(enteredTitle, inTitle) ==
    IF inTitle THEN "SEEK_MPEG" ELSE "NOFLAGS"

\* lines 339-343
SeekFlags(enteredTitle, inTitle) ==
    IF enteredTitle THEN "SEEK_KEY"
    ELSE IF inTitle THEN "SEEK_MPEG"
    ELSE "NOFLAGS"

\* lines 350-352
ReadFlags(inTitle) == IF inTitle THEN "READ_DECRYPT" ELSE "NOFLAGS"

(***************************************************************************)
(* The device (pydvdcss), as the code uses it.                             *)
(***************************************************************************)

\* dvdcss.seek(lba, flags): lands on lba, or fails: an error code (-1), or
\* a landing on another sector (sector 0, or sector 1 when lba is 0).
SeekResults(lba) == {lba, -1, IF lba = 0 THEN 1 ELSE 0}

\* the device's position after a seek that returned r
SeekLanding(r, position) == IF r >= 0 THEN r ELSE position

\* the key of the title at lba: a key is named by the start of the VOB file
\* that holds lba on the disc, by lba itself where no VOB file is
TitleKey(lba) ==
    LET holders == {k \in DOMAIN listing :
                      /\ listing[k].vob
                      /\ listing[k].lba <= lba
                      /\ lba < listing[k].lba + listing[k].size}
    IN  IF holders = {} THEN lba
        ELSE listing[CHOOSE k \in holders : \A j \in holders : k <= j].lba

\* the title keys the device may hold after a seek to lba that returned r:
\* SEEK_KEY acquires the key of the title at lba; SEEK_MPEG acquires it or
\* leaves the loaded key as it is, depending on the library's cracking
\* method; NOFLAGS leaves it
SeekKeys(lba, flags, r, key) ==
    IF r # lba THEN {key}
    ELSE IF flags = "SEEK_KEY" THEN {TitleKey(lba)}
    ELSE IF flags = "SEEK_MPEG" THEN {key, TitleKey(lba)}
    ELSE {key}

\* dvdcss.read(sectors, flags): all the sectors when they are on the disc,
\* or fewer (a short read), or an error code (-1)
ReadResults(position, sectors) ==
    {r \in {sectors, sectors - 1} : position + r <= space_size} \cup {-1}

\* the sectors a device read of r sectors leaves in dvdcss.buffer
ReadData(position, r, flags, key) ==
    [i \in 1..Max(r, 0) |->
        [lba |-> position + i - 1,
         dec |-> flags = "READ_DECRYPT",
         key |-> IF flags = "READ_DECRYPT" THEN key ELSE -1]]

NoCall ==
    [outcome |-> "none", first_lba |-> 0, requested |-> 0,
     sectors |-> 0, enteredTitle |-> FALSE, inTitle |-> FALSE,
     seekIssued |-> FALSE, seekFlags |-> "NOFLAGS", seekRet |-> 0,
     readIssued |-> FALSE, readFlags |-> "NOFLAGS", readAt |-> 0, readKey |-> 0,
     ret |-> 0, data |-> <<>>]

(***************************************************************************)
(* Dvd.read(first_lba, sectors), lines 299-359: the plan, the seek when    *)
(* one is needed, the device read, the cursor.  call' records the call;    *)
(* call'.outcome is "ok" when read() returns and names the IOError raised  *)
(* otherwise.                                                              *)
(***************************************************************************)
read(first_lba, sectors) ==
    \E p \in {ReadPlan(first_lba, sectors, reader_position, vob_lba_offsets)} :
    \E sr \in (IF p.needToSeek THEN SeekResults(first_lba) ELSE {first_lba}) :
    \E sflags \in {SeekFlags(p.enteredTitle, p.inTitle)} :
    \E rflags \in {ReadFlags(p.inTitle)} :
    \E pos1 \in {IF p.needToSeek THEN sr ELSE reader_position} :
    \E dev1 \in {IF p.needToSeek THEN SeekLanding(sr, devPos) ELSE devPos} :
    \E key1 \in (IF p.needToSeek THEN SeekKeys(first_lba, sflags, sr, devKey)
                 ELSE {devKey}) :
    \E sought \in {[NoCall EXCEPT
                      !.first_lba = first_lba, !.requested = sectors,
                      !.sectors = p.sectors,
                      !.enteredTitle = p.enteredTitle, !.inTitle = p.inTitle,
                      !.seekIssued = p.needToSeek,
                      !.seekFlags = IF p.needToSeek THEN sflags ELSE "NOFLAGS",
                      !.seekRet = IF p.needToSeek THEN sr ELSE 0]} :
        IF pos1 # first_lba
        THEN \* line 348: the seek landed elsewhere
             /\ reader_position' = pos1
             /\ devPos' = dev1
             /\ devKey' = key1
             /\ buffer' = buffer
             /\ call' = [sought EXCEPT !.outcome = "SeekMismatch"]
        ELSE \E rr \in ReadResults(dev1, p.sectors) :
             \E data \in {ReadData(dev1, rr, rflags, key1)} :
             /\ devPos' = dev1 + Max(rr, 0)
             /\ devKey' = key1
             /\ buffer' = data
             /\ reader_position' = IF rr = p.sectors THEN pos1 + rr ELSE pos1
             /\ call' = [sought EXCEPT !.readIssued = TRUE, !.readFlags = rflags,
                                       !.readAt = dev1, !.readKey = key1, !.ret = rr,
                                       !.data = data,
                                       !.outcome = IF rr = p.sectors THEN "ok"
                                                   ELSE "ShortRead"]

(***************************************************************************)
(* The disc: what cdlib lists under /VIDEO_TS and the volume descriptor.   *)
(***************************************************************************)

\* get_files (lines 171-195) yields (file_path, lba, size); vob says whether
\* the path's extension is ".VOB" (line 208).  The other files of a disc
\* (.IFO, .BUP) are listed too; one such entry stands for them.
VobEntries == [vob : {TRUE}, lba : 0..(MaxSectors - 1), size : 1..MaxSize]
OtherEntries == [vob : {FALSE}, lba : {MaxSectors - 1}, size : {1}]
Entries == VobEntries \cup OtherEntries

Listings == UNION {[1..n -> Entries] : n \in 0..MaxFiles}

NoFile == [exists |-> FALSE, data |-> <<>>]

\* the frame of a create_backup call that has not started; seeks, reads and
\* writes count the device seeks, device reads and file writes the call has
\* issued, keyed holds the sectors its read() calls have sought with SEEK_KEY
IdleRun ==
    [pc |-> "idle", err |-> "", idx |-> 1, lba_data |-> <<>>,
     last_lba |-> 0, current_lba |-> 0, read_sectors |-> 0,
     f |-> "none", fpos |-> 0, seeks |-> 0, reads |-> 0, writes |-> 0,
     keyed |-> {}, progress |-> <<>>, busy |-> FALSE]

\* the devices open() is called with
Devs == {"dev0", "dev1"}

\* Dvd.__init__ (lines 46-52): no device, not ready, no cdlib, no dvdcss.
\* cdlib and dvdcss are "None", "created" (the object is made, its open() has
\* not succeeded) or "open"; asked and result record the last call of open()
\* or dispose(): the device asked for and how the call ended.
NoSession ==
    [dev |-> "None", ready |-> FALSE, cdlib |-> "None", dvdcss |-> "None",
     asked |-> "None", result |-> "none"]

\* the session after open(dev) has run to its end (lines 82-90)
Opened(dev) ==
    [dev |-> dev, ready |-> TRUE, cdlib |-> "open", dvdcss |-> "open",
     asked |-> dev, result |-> "opened"]

\* Dvd.__init__ (lines 46-52) and open (lines 68-93): a session that is open
\* and ready on a disc, nothing read yet, no output file
Session(entries, sectors, block, offsets) ==
    /\ session = Opened("dev0")
    /\ listing = entries
    /\ space_size = sectors
    /\ block_buffer = block
    /\ volume_identifier = "bytes"
    /\ reader_position = 0
    /\ vob_lba_offsets = offsets
    /\ devPos = 0
    /\ devKey = -1
    /\ buffer = <<>>
    /\ tmpFile = NoFile
    /\ finalFile = NoFile
    /\ run = [t \in Threads |-> IdleRun]
    /\ call = NoCall
    /\ seen = NoCall

Init ==
    \E entries \in Listings, sectors \in 1..MaxSectors, block \in 1..MaxBlock :
        Session(entries, sectors, block, <<>>)

(***************************************************************************)
(* Dvd.create_backup, lines 223-297, one action per step of a thread.      *)
(***************************************************************************)

\* the phases of a run from the key cracking to the rename
Active == {"crack", "open", "read", "write", "close"}

Raise(t, e) == run' = [run EXCEPT ![t].pc = "failed", ![t].err = e]

\* lines 230-236: the call starts (asynchronous_auto runs it on its own
\* thread when a js callback is given)
Invoke(t) ==
    /\ run[t].pc \in {"idle", "done", "failed"}
    /\ run' = [run EXCEPT ![t] =
                  [IdleRun EXCEPT !.pc = "decode",
                                  !.busy = \E u \in Threads \ {t} : run[u].pc \in Active]]
    /\ UNCHANGED <<discVars, volume_identifier, reader_position, vob_lba_offsets,
                   deviceVars, fileVars, call, seen>>

\* line 237 as if a str could be decoded again
DecodableTwice(identifier) == identifier \in {"bytes", "str"}

\* line 237: bytes has decode(), str has not
Decodable(identifier) == identifier = "bytes"

\* line 237, right-hand side: pvd.volume_identifier.decode().strip() raises
\* AttributeError once an earlier call has stored the str
DecodeVolumeId(t) ==
    /\ run[t].pc = "decode"
    /\ IF Decodable(volume_identifier)
       THEN run' = [run EXCEPT ![t].pc = "store"]
       ELSE Raise(t, "AttributeError")
    /\ UNCHANGED <<discVars, volume_identifier, reader_position, vob_lba_offsets,
                   deviceVars, fileVars, call, seen>>

\* line 237, the assignment, and lines 238-251 up to the call of get_vob_lbas
StoreVolumeId(t) ==
    /\ run[t].pc = "store"
    /\ volume_identifier' = "str"
    /\ run' = [run EXCEPT ![t].pc = "crack", ![t].last_lba = space_size - 1,
                          ![t].idx = 1, ![t].lba_data = <<>>]
    /\ UNCHANGED <<discVars, reader_position, vob_lba_offsets, deviceVars,
                   fileVars, call, seen>>

\* line 208 without the filter on the extension
IsVobAny(entry) == entry.vob \in BOOLEAN

\* line 208
IsVob(entry) == entry.vob

\* line 212 taking every seek for a success
KeyCrackedAlways(lba, r) == TRUE

\* line 212 taking any landing for a success
KeyCrackedAnywhere(lba, r) == r >= 0

\* line 212
KeyCracked(lba, r) == lba = r

\* get_vob_lbas(crack_keys=True), lines 204-221, one iteration of its loop;
\* past the last entry it returns and line 251 stores the result
CrackKeys(t) ==
    /\ run[t].pc = "crack"
    /\ IF run[t].idx > Len(listing)
       THEN /\ vob_lba_offsets' = run[t].lba_data
            /\ run' = [run EXCEPT ![t].pc = "open"]
            /\ UNCHANGED deviceVars
       ELSE LET entry == listing[run[t].idx] IN
            IF ~IsVob(entry)
            THEN /\ run' = [run EXCEPT ![t].idx = @ + 1]
                 /\ UNCHANGED <<vob_lba_offsets, deviceVars>>
            ELSE \E r \in SeekResults(entry.lba) :
                 /\ devPos' = SeekLanding(r, devPos)
                 /\ devKey' \in SeekKeys(entry.lba, "SEEK_KEY", r, devKey)
                 /\ buffer' = buffer
                 /\ vob_lba_offsets' = vob_lba_offsets
                 /\ IF KeyCracked(entry.lba, r)
                    THEN run' = [run EXCEPT ![t].idx = @ + 1,
                                            ![t].seeks = @ + 1,
                                            ![t].lba_data =
                                                Append(@, <<entry.lba, entry.size>>)]
                    ELSE run' = [run EXCEPT ![t].pc = "failed",
                                            ![t].err = "KeyCrack",
                                            ![t].seeks = @ + 1]
    /\ UNCHANGED <<discVars, volume_identifier, reader_position, fileVars, call, seen>>

\* line 255: open(fn_tmp, "wb") creates the file or truncates it;
\* lines 265-268
OpenTmp(t) ==
    /\ run[t].pc = "open"
    /\ tmpFile' = [exists |-> TRUE, data |-> <<>>]
    /\ run' = [run EXCEPT ![t].pc = "read", ![t].f = "tmp", ![t].fpos = 0,
                          ![t].current_lba = 0]
    /\ UNCHANGED <<discVars, volume_identifier, reader_position, vob_lba_offsets,
                   deviceVars, finalFile, call, seen>>

\* line 271
ChunkSectors(current_lba, last_lba) ==
    Min(block_buffer, last_lba - current_lba + 1)

\* line 269 with a strict comparison
MoreSectorsStrict(current_lba, last_lba) == current_lba < last_lba

\* line 269
MoreSectors(current_lba, last_lba) == current_lba <= last_lba

\* line 273 as if the IOError of read() were swallowed
RaisedNever(outcome) == FALSE

\* line 273: the IOError that read() raises (lines 348, 356) leaves the loop
Raised(outcome) == outcome # "ok"

\* lines 269-275: the loop test and the read of one chunk
ReadChunk(t) ==
    /\ run[t].pc = "read"
    /\ IF MoreSectors(run[t].current_lba, run[t].last_lba)
       THEN /\ read(run[t].current_lba,
                    ChunkSectors(run[t].current_lba, run[t].last_lba))
            /\ run' = [run EXCEPT
                  ![t].pc = IF Raised(call'.outcome) THEN "failed" ELSE "write",
                  ![t].err = IF Raised(call'.outcome) THEN call'.outcome ELSE "",
                  ![t].read_sectors = call'.ret,
                  ![t].seeks = @ + (IF call'.seekIssued THEN 1 ELSE 0),
                  ![t].reads = @ + (IF call'.readIssued THEN 1 ELSE 0),
                  ![t].keyed = @ \cup (IF /\ call'.seekIssued
                                          /\ call'.seekFlags = "SEEK_KEY"
                                       THEN {call'.first_lba} ELSE {})]
       ELSE /\ run' = [run EXCEPT ![t].pc = "close"]
            /\ UNCHANGED <<reader_position, deviceVars, call, seen>>
    /\ UNCHANGED <<discVars, volume_identifier, vob_lba_offsets, fileVars, seen>>

\* a write that replaces the file's content instead of extending it
WriteAtStart(old, off, data) == data

\* a write of data at sector offset off of a file holding old: the bytes
\* between the old end and off, if any, read as a hole
WriteAt(old, off, data) ==
    [i \in 1..Max(Len(old), off + Len(data)) |->
        IF i > off /\ i <= off + Len(data) THEN data[i - off]
        ELSE IF i <= Len(old) THEN old[i]
        ELSE [lba |-> -1, dec |-> FALSE, key |-> -1]]

\* line 281: (current_lba / last_lba) * 100, in whole percent
Progress(current_lba, last_lba) == (current_lba * 100) \div last_lba

\* lines 277-283: the buffer is written at the handle's offset, current_lba
\* advances, progress is reported (a division by last_lba); or f.write
\* raises.  The handle follows its file: when another call has renamed
\* fn_tmp meanwhile, the write lands in the file now at fn.
WriteChunk(t) ==
    /\ run[t].pc = "write"
    /\ \/ /\ tmpFile' = IF run[t].f = "tmp"
                        THEN [tmpFile EXCEPT !.data = WriteAt(@, run[t].fpos, buffer)]
                        ELSE tmpFile
          /\ finalFile' = IF run[t].f = "final"
                          THEN [finalFile EXCEPT !.data = WriteAt(@, run[t].fpos, buffer)]
                          ELSE finalFile
          /\ LET lba == run[t].current_lba + run[t].read_sectors IN
             IF run[t].last_lba = 0
             THEN run' = [run EXCEPT ![t].pc = "failed",
                                     ![t].err = "ZeroDivisionError",
                                     ![t].fpos = @ + Len(buffer),
                                     ![t].writes = @ + 1,
                                     ![t].current_lba = lba]
             ELSE run' = [run EXCEPT ![t].pc = "read",
                                     ![t].fpos = @ + Len(buffer),
                                     ![t].writes = @ + 1,
                                     ![t].current_lba = lba,
                                     ![t].progress =
                                         Append(@, Progress(lba, run[t].last_lba))]
       \/ /\ Raise(t, "IOWrite")
          /\ UNCHANGED fileVars
    /\ UNCHANGED <<discVars, volume_identifier, reader_position, vob_lba_offsets,
                   deviceVars, call, seen>>

\* the handles after os.rename(fn_tmp, fn): a handle on the renamed file is now
\* on the file at fn, a handle on the file that was at fn is on no name
Renamed(f) ==
    IF f = "tmp" THEN "final" ELSE IF f = "final" THEN "unlinked" ELSE f

\* lines 285-288: f.close(), then os.rename(fn_tmp, fn), which raises when
\* fn_tmp is gone
Finalize(t) ==
    /\ run[t].pc = "close"
    /\ IF tmpFile.exists
       THEN /\ finalFile' = tmpFile
            /\ tmpFile' = NoFile
            /\ run' = [u \in Threads |->
                         IF u = t THEN [run[t] EXCEPT !.pc = "done", !.f = "closed"]
                         ELSE [run[u] EXCEPT !.f = Renamed(@)]]
       ELSE /\ run' = [run EXCEPT ![t].pc = "failed", ![t].f = "closed",
                                  ![t].err = "FileNotFoundError"]
            /\ UNCHANGED fileVars
    /\ UNCHANGED <<discVars, volume_identifier, reader_position, vob_lba_offsets,
                   deviceVars, call, seen>>

Step(t) ==
    \/ Invoke(t)
    \/ DecodeVolumeId(t)
    \/ StoreVolumeId(t)
    \/ CrackKeys(t)
    \/ OpenTmp(t)
    \/ ReadChunk(t)
    \/ WriteChunk(t)
    \/ Finalize(t)

\* one caller: create_backup calls follow one another on thread 1
Next == Step(1)

Spec == Init /\ [][Next]_vars

\* the thread that runs create_backup is not held back: a step that can be
\* taken is taken
SpecLive == Init /\ [][Next]_vars /\ WF_vars(Next)

\* two callers: a create_backup may be called while another is running.
\* The discs are small: one-sector VOB files within the disc, chunks of one
\* sector.
ConcEntries ==
    [vob : {TRUE}, lba : 0..(ConcSectors - 1), size : {1}] \cup OtherEntries

InitConc ==
    \E n \in 0..ConcFiles, sectors \in 1..ConcSectors :
    \E entries \in [1..n -> ConcEntries] :
        Session(entries, sectors, 1, <<>>)

NextConc == \E t \in Threads : Step(t)

SpecConc == InitConc /\ [][NextConc]_vars

(***************************************************************************)
(* Calls of Dvd.read from outside create_backup, on a session whose        *)
(* TitleMap was taken from get_vob_lbas().                                 *)
(***************************************************************************)

\* get_vob_lbas(crack_keys=False), lines 204-221: the (lba, size) of the
\* entries that are VOB files, in listing order
RECURSIVE get_vob_lbas(_, _)
get_vob_lbas(entries, i) ==
    IF i > Len(entries) THEN <<>>
    ELSE IF IsVob(entries[i])
         THEN <<<<entries[i].lba, entries[i].size>>>> \o get_vob_lbas(entries, i + 1)
         ELSE get_vob_lbas(entries, i + 1)

\* the disc of the worked scenario: 1000 sectors, one title of 50 sectors at 100
ScenarioDisc ==
    [listing |-> <<[vob |-> TRUE, lba |-> 100, size |-> 50]>>, space_size |-> 1000]

InitRead ==
    \E entries \in Listings :
        Session(entries, MaxSectors + MaxCount, MaxBlock, get_vob_lbas(entries, 1))

InitScenario ==
    Session(ScenarioDisc.listing, ScenarioDisc.space_size, MaxBlock,
            get_vob_lbas(ScenarioDisc.listing, 1))

\* the arguments the callers of read() pass
ReadLbas ==
    IF space_size = ScenarioDisc.space_size THEN {90, 100, 130, 140, 149}
    ELSE 0..(MaxSectors - 1)

ReadCounts ==
    IF space_size = ScenarioDisc.space_size THEN {10, 20, 30}
    ELSE 1..MaxCount

\* a caller calls read(first_lba, sectors); it stops at the first IOError
DirectRead(first_lba, sectors) ==
    /\ call.outcome \in {"none", "ok"}
    /\ read(first_lba, sectors)
    /\ UNCHANGED <<discVars, volume_identifier, vob_lba_offsets, fileVars, run, seen>>

\* the caller keeps the sectors a call returned, to compare a later call with
KeepCall ==
    /\ call.outcome = "ok"
    /\ seen.outcome = "none"
    /\ seen' = [NoCall EXCEPT !.outcome = "ok", !.first_lba = call.first_lba,
                              !.requested = call.requested, !.data = call.data]
    /\ UNCHANGED <<discVars, volume_identifier, reader_position, vob_lba_offsets,
                   deviceVars, fileVars, run, call>>

NextRead ==
    \E first_lba \in ReadLbas, sectors \in ReadCounts : DirectRead(first_lba, sectors)

SpecRead == InitRead /\ [][NextRead]_vars

SpecScenario == InitScenario /\ [][NextRead]_vars

\* the callers of read() on every disc: the small discs and the scenario's
SpecReadAll == (InitRead \/ InitScenario) /\ [][NextRead]_vars

\* the same callers, comparing what equal calls return
NextIdem == NextRead \/ KeepCall

SpecIdem == InitRead /\ [][NextIdem]_vars

(***************************************************************************)
(* Dvd.open and Dvd.dispose, lines 60-93, called one after another and     *)
(* between the runs of create_backup.                                      *)
(***************************************************************************)

\* all the variables but session
sessionState ==
    <<listing, space_size, block_buffer, volume_identifier, reader_position,
      vob_lba_offsets, devPos, devKey, buffer, tmpFile, finalFile, run, call, seen>>

\* the disc in a device: ConcSectors sectors, one VOB file of one sector, at
\* the first sector in dev0 and at the last in dev1; both discs carry the
\* same volume identifier, so their backups share fn and fn_tmp
DiscIn(dev) ==
    [listing |-> <<[vob |-> TRUE,
                    lba |-> IF dev = "dev0" THEN 0 ELSE ConcSectors - 1,
                    size |-> 1]>>,
     space_size |-> ConcSectors]

\* line 76: self.dvdcss or self.cdlib (an object is true, None is false)
HasHandles(s) == s.dvdcss # "None" \/ s.cdlib # "None"

\* line 62, self.cdlib.close(): an opened PyCdlib is closed; on one that was
\* never opened the library closes nothing and may raise
CloseResults(s) ==
    IF s.cdlib = "created" THEN {"closed", "raised"} ELSE {"closed"}

\* where open() ends: at its end ("ok"), or at the call that raised
OpenOutcomes == {"ok", "cdlib.open", "PyDvdCss", "dvdcss.open"}

\* lines 82-90 of open(dev), after lines 76-81 let it pass: the handles are
\* made and opened up to the call that raises; disposed says whether line 79
\* has reset the session before
Load(dev, outcome, disposed) ==
    /\ session' =
          [dev |-> dev,
           ready |-> outcome = "ok",
           cdlib |-> IF outcome = "cdlib.open" THEN "created" ELSE "open",
           dvdcss |-> IF outcome = "ok" THEN "open"
                      ELSE IF outcome = "dvdcss.open" THEN "created"
                      ELSE "None",
           asked |-> dev,
           result |-> IF outcome = "ok" THEN "opened" ELSE "failed"]
    /\ listing' = IF outcome = "cdlib.open" THEN <<>> ELSE DiscIn(dev).listing
    /\ space_size' = IF outcome = "cdlib.open" THEN 0 ELSE DiscIn(dev).space_size
    /\ volume_identifier' = "bytes"
    /\ devPos' = 0
    /\ devKey' = -1
    /\ buffer' = <<>>
    /\ reader_position' = IF disposed THEN 0 ELSE reader_position
    /\ vob_lba_offsets' = IF disposed THEN <<>> ELSE vob_lba_offsets
    /\ UNCHANGED <<block_buffer, fileVars, run, call, seen>>

\* a call of open() or dispose() that raises before it has changed anything
Refused(dev, result) ==
    /\ session' = [session EXCEPT !.asked = dev, !.result = result]
    /\ UNCHANGED sessionState

\* Dvd.open(dev), lines 68-93
open(dev) ==
    /\ run[1].pc \in {"idle", "done", "failed"}
    /\ IF HasHandles(session)
       THEN IF dev # session.dev
            THEN \* line 79: dispose, and continue loading the new disc
                 \E closed \in CloseResults(session) :
                    IF closed = "raised"
                    THEN Refused(dev, "disposeError")
                    ELSE \E outcome \in OpenOutcomes : Load(dev, outcome, TRUE)
            ELSE \* line 81
                 Refused(dev, "rejected")
       ELSE \E outcome \in OpenOutcomes : Load(dev, outcome, FALSE)

\* Dvd.dispose(), lines 60-66: the handles are closed and __init__ resets
\* the fields
dispose ==
    /\ run[1].pc \in {"idle", "done", "failed"}
    /\ \E closed \in CloseResults(session) :
          IF closed = "raised"
          THEN Refused("None", "disposeError")
          ELSE /\ session' = [NoSession EXCEPT !.result = "disposed"]
               /\ listing' = <<>>
               /\ space_size' = 0
               /\ volume_identifier' = "bytes"
               /\ devPos' = 0
               /\ devKey' = -1
               /\ buffer' = <<>>
               /\ reader_position' = 0
               /\ vob_lba_offsets' = <<>>
               /\ UNCHANGED <<block_buffer, fileVars, run, call, seen>>

\* Dvd(): the object as __init__ leaves it, no disc loaded
InitOpen ==
    /\ session = NoSession
    /\ listing = <<>>
    /\ space_size = 0
    /\ block_buffer = 1
    /\ volume_identifier = "bytes"
    /\ reader_position = 0
    /\ vob_lba_offsets = <<>>
    /\ devPos = 0
    /\ devKey = -1
    /\ buffer = <<>>
    /\ tmpFile = NoFile
    /\ finalFile = NoFile
    /\ run = [t \in Threads |-> IdleRun]
    /\ call = NoCall
    /\ seen = NoCall

\* the caller opens devices, disposes, and backs up the disc of a session
\* that is ready
NextOpen ==
    \/ \E dev \in Devs : open(dev)
    \/ dispose
    \/ session.ready /\ Step(1)

SpecOpen == InitOpen /\ [][NextOpen]_vars

(***************************************************************************)
(* Properties.                                                             *)
(***************************************************************************)

TitleStart(vob_lba_offset) == vob_lba_offset[1]

\* lba is a sector of some title of offsets
InTitle(lba, offsets) ==
    \E i \in DOMAIN offsets :
        TitleStart(offsets[i]) <= lba /\ lba <= TitleEnd(offsets[i])

\* the titles are sorted ascending by start and pairwise non-overlapping
WellFormed(offsets) ==
    \A i, j \in DOMAIN offsets :
        i < j => TitleEnd(offsets[i]) < TitleStart(offsets[j])

\* data holds the sectors first, first + 1, ... in this order
Consecutive(data, first) == \A i \in DOMAIN data : data[i].lba = first + i - 1

\* the errors that leave create_backup's reading loop
ReadingErrors == {"SeekMismatch", "ShortRead", "IOWrite", "ZeroDivisionError"}

\* C1: the range a read() that returned has consumed lies within one title or
\* outside all titles: it straddles no start and no end of a title.
C1_NoStraddle ==
    call.outcome = "ok" =>
        LET lo == call.first_lba
            hi == call.first_lba + call.ret - 1
        IN  \/ \E i \in DOMAIN vob_lba_offsets :
                  /\ TitleStart(vob_lba_offsets[i]) <= lo
                  /\ hi <= TitleEnd(vob_lba_offsets[i])
            \/ \A i \in DOMAIN vob_lba_offsets :
                  \/ hi < TitleStart(vob_lba_offsets[i])
                  \/ TitleEnd(vob_lba_offsets[i]) < lo

\* C2: with sorted, non-overlapping titles, every sector create_backup has
\* written was read with READ_DECRYPT if it lies in a title and with no flag
\* if it lies in none.
C2_DecryptExactlyTitles ==
    WellFormed(vob_lba_offsets) =>
        /\ \A i \in DOMAIN tmpFile.data :
              tmpFile.data[i].lba >= 0 =>
                  tmpFile.data[i].dec = InTitle(tmpFile.data[i].lba, vob_lba_offsets)
        /\ \A i \in DOMAIN finalFile.data :
              finalFile.data[i].lba >= 0 =>
                  finalFile.data[i].dec = InTitle(finalFile.data[i].lba, vob_lba_offsets)

\* C3: in a run whose seeks and reads succeed, the chunks read and appended
\* are the sectors 0, 1, 2, ... in this order, each chunk starting where the
\* one before ended; when the loop has ended, space_size sectors are written.
C3_CoversDiscInOrder ==
    LET r == run[1]
        out == IF r.pc = "done" THEN finalFile ELSE tmpFile
    IN  /\ r.pc \in {"read", "write", "close", "done"} =>
              /\ out.exists
              /\ Len(out.data) = r.current_lba
              /\ Consecutive(out.data, 0)
        /\ r.pc = "write" =>
              /\ call.outcome = "ok"
              /\ call.first_lba = r.current_lba
              /\ r.read_sectors >= 1
              /\ Len(buffer) = r.read_sectors
              /\ Consecutive(buffer, r.current_lba)
        /\ r.pc \in {"close", "done"} => r.current_lba = space_size

C3_Witness ==
    /\ run[1].pc = "done"
    /\ run[1].writes >= 3
    /\ Len(finalFile.data) = MaxSectors
    /\ Len(vob_lba_offsets) >= 1

\* C4: a file exists at the final path only when all the sectors of the disc
\* were written to the temporary file and it was closed and renamed; no run
\* that is still going, and no run that failed, has left a file there.
C4_FinalOnlyWhenComplete ==
    /\ finalFile.exists =>
          /\ Len(finalFile.data) = space_size
          /\ Consecutive(finalFile.data, 0)
          /\ ~tmpFile.exists
    /\ run[1].pc = "done" => run[1].f = "closed" /\ run[1].current_lba = space_size
    /\ run[1].pc \in Active => ~finalFile.exists
    /\ (run[1].pc = "failed" /\ run[1].err \in ReadingErrors \cup {"KeyCrack"})
          => ~finalFile.exists

C4_Witness ==
    /\ finalFile.exists
    /\ run[1].pc = "done"
    /\ run[1].writes >= 2

\* C5 as stated: after an error has left the reading loop, neither the
\* temporary file nor the final file exists.
C5_TmpDeletedOnError ==
    (run[1].pc = "failed" /\ run[1].err \in ReadingErrors)
        => ~tmpFile.exists /\ ~finalFile.exists

\* C5 as amended: after an error has left the reading loop the temporary file
\* is still there, open, holding the chunks written before the error, and no
\* file exists at the final path.
C5_TmpKeptOnError ==
    (run[1].pc = "failed" /\ run[1].err \in ReadingErrors) =>
        /\ tmpFile.exists
        /\ run[1].f = "tmp"
        /\ Len(tmpFile.data) = run[1].fpos
        /\ Consecutive(tmpFile.data, 0)
        /\ ~finalFile.exists

C5_Witness ==
    /\ run[1].pc = "failed"
    /\ run[1].err = "SeekMismatch"
    /\ run[1].writes >= 1
    /\ Len(tmpFile.data) >= 1

\* C6: a key-crack seek counts as a success only when it landed on the start
\* of its VOB file; when one fails the run fails at that file, before the
\* temporary file is opened: nothing is written, no device read is issued,
\* the TitleMap is not replaced and neither output file exists.
C6_KeyCrackFailureWritesNothing ==
    LET r == run[1] IN
    /\ (r.pc = "crack" /\ Len(r.lba_data) >= 1) =>
          devPos = TitleStart(r.lba_data[Len(r.lba_data)])
    /\ (r.pc = "failed" /\ r.err = "KeyCrack") =>
          /\ r.idx \in DOMAIN listing
          /\ IsVob(listing[r.idx])
          /\ r.reads = 0
          /\ r.writes = 0
          /\ r.f = "none"
          /\ vob_lba_offsets = <<>>
          /\ ~tmpFile.exists
          /\ ~finalFile.exists

C6_Witness ==
    /\ run[1].pc = "failed"
    /\ run[1].err = "KeyCrack"
    /\ run[1].idx = 2
    /\ Len(run[1].lba_data) = 1

\* C7 as stated: at most one run is between its key cracking and its rename.
C7_AtMostOneActive ==
    \A t, u \in Threads :
        (run[t].pc \in Active /\ run[u].pc \in Active) => t = u

\* C7 as amended: a create_backup called while another run is between its key
\* cracking and its rename is rejected (by the AttributeError of line 237)
\* and has issued no seek, no read and no write and opened no file.
C7_RejectedWhileActive ==
    \A t \in Threads :
        run[t].busy =>
            /\ run[t].pc \in {"decode", "failed"}
            /\ run[t].pc = "failed" => run[t].err = "AttributeError"
            /\ run[t].seeks = 0
            /\ run[t].reads = 0
            /\ run[t].writes = 0
            /\ run[t].f = "none"

C7_Witness ==
    \E t, u \in Threads :
        /\ run[t].busy
        /\ run[t].pc = "failed"
        /\ run[u].pc = "write"

\* C8 as stated: the TitleMap is sorted ascending by start and its titles are
\* pairwise non-overlapping.
C8_SortedNonOverlapping == WellFormed(vob_lba_offsets)

\* C8 as amended: the TitleMap holds the (lba, size) of the VOB entries in
\* the order of the listing, one title per VOB entry and no other.
C8_ListingOrder ==
    LET vobs == {k \in DOMAIN listing : listing[k].vob}
        rank(k) == Cardinality({j \in vobs : j <= k})
    IN  run[1].pc \in (Active \ {"crack"}) \cup {"done"} =>
            /\ Len(vob_lba_offsets) = Cardinality(vobs)
            /\ \A k \in vobs :
                  vob_lba_offsets[rank(k)] = <<listing[k].lba, listing[k].size>>

C8_Witness ==
    /\ run[1].pc = "open"
    /\ Len(listing) = 2
    /\ Len(vob_lba_offsets) = 2
    /\ TitleStart(vob_lba_offsets[1]) > TitleStart(vob_lba_offsets[2])

\* C9: two calls of read() with the same arguments return the same sectors,
\* decrypted or not, decrypted with the same key.
C9_Idempotent ==
    (/\ seen.outcome = "ok"
     /\ call.outcome = "ok"
     /\ call.first_lba = seen.first_lba
     /\ call.requested = seen.requested) => call.data = seen.data

\* C10 as stated: read(140, 20) reads the 10 sectors 140..149 with no seek
\* flag and no read flag.
C10_ClippedNoFlags ==
    (call.outcome = "ok" /\ call.first_lba = 140 /\ call.requested = 20) =>
        /\ call.ret = 10
        /\ Consecutive(call.data, 140)
        /\ call.readFlags = "NOFLAGS"
        /\ call.seekIssued => call.seekFlags = "NOFLAGS"

\* C10 as amended: read(140, 20) reads the 10 sectors 140..149 with
\* READ_DECRYPT, after a SEEK_MPEG seek when it seeks.
C10_ClippedDecrypt ==
    (call.outcome = "ok" /\ call.first_lba = 140 /\ call.requested = 20) =>
        /\ call.ret = 10
        /\ Len(call.data) = 10
        /\ Consecutive(call.data, 140)
        /\ call.readFlags = "READ_DECRYPT"
        /\ call.seekIssued => call.seekFlags = "SEEK_MPEG"

C10_Witness ==
    /\ call.outcome = "ok"
    /\ call.first_lba = 140
    /\ call.requested = 20
    /\ call.seekIssued
    /\ reader_position = 150

\* the starts of the titles of offsets that lie after lba
StartsAfter(lba, offsets) ==
    {TitleStart(offsets[i]) : i \in DOMAIN offsets} \ (0..lba)

\* the least element of a non-empty set of numbers
Least(S) == CHOOSE x \in S : \A y \in S : x <= y

\* C11: a read() that starts outside all titles and whose requested range
\* reaches past the start of a title is clipped to end one sector before the
\* nearest title start after first_lba; it reads without READ_DECRYPT and its
\* seek, if it seeks, carries no flag.  On the disc with the one title
\* (100, 50), read(90, 30) reads the 10 sectors 90..99 so.
C11_ClippedBeforeTitle ==
    /\ (/\ call.outcome = "ok"
        /\ ~InTitle(call.first_lba, vob_lba_offsets)
        /\ \E x \in StartsAfter(call.first_lba, vob_lba_offsets) :
               x < call.first_lba + call.requested) =>
           /\ call.ret = Least(StartsAfter(call.first_lba, vob_lba_offsets))
                             - call.first_lba
           /\ Len(call.data) = call.ret
           /\ Consecutive(call.data, call.first_lba)
           /\ \A i \in DOMAIN call.data : ~call.data[i].dec
           /\ call.readFlags = "NOFLAGS"
           /\ call.seekIssued => call.seekFlags = "NOFLAGS"
    /\ (call.outcome = "ok" /\ call.first_lba = 90 /\ call.requested = 30) =>
           /\ call.ret = 10
           /\ Consecutive(call.data, 90)
           /\ call.readFlags = "NOFLAGS"
           /\ call.seekIssued => call.seekFlags = "NOFLAGS"

C11_Witness ==
    /\ call.outcome = "ok"
    /\ call.first_lba = 90
    /\ call.requested = 30
    /\ call.seekIssued
    /\ Len(call.data) = 10
    /\ reader_position = 100

\* C12: a call of read() issues a device seek exactly when first_lba differs
\* from the cursor as the call finds it, or first_lba is 0, or first_lba is
\* the start of a title; a call that does not seek issues the device read.
C12_SeekIffNeeded ==
    [][/\ call'.seekIssued <=>
              \/ call'.first_lba # reader_position
              \/ call'.first_lba = 0
              \/ \E i \in DOMAIN vob_lba_offsets :
                     TitleStart(vob_lba_offsets[i]) = call'.first_lba
       /\ ~call'.seekIssued => call'.readIssued /\ call'.readAt = devPos]_vars

C12_Witness ==
    /\ call.outcome = "ok"
    /\ ~call.seekIssued
    /\ call.readIssued
    /\ call.first_lba > 0
    /\ Len(vob_lba_offsets) >= 1

\* first_lba is the start of some title of offsets
IsTitleStart(lba, offsets) ==
    \E i \in DOMAIN offsets : TitleStart(offsets[i]) = lba

\* C13: a seek that read() issues carries SEEK_KEY if first_lba is the start
\* of a title, SEEK_MPEG if the clipped range lies inside one title and
\* first_lba is no title start, and no flag if the clipped range touches no
\* title; a read that starts inside a title but not at a title start never
\* issues SEEK_KEY.
C13_SeekFlags ==
    call.seekIssued =>
        LET lo == call.first_lba
            hi == call.first_lba + call.sectors - 1
        IN  /\ IsTitleStart(lo, vob_lba_offsets) => call.seekFlags = "SEEK_KEY"
            /\ (/\ ~IsTitleStart(lo, vob_lba_offsets)
                /\ \E i \in DOMAIN vob_lba_offsets :
                       /\ TitleStart(vob_lba_offsets[i]) <= lo
                       /\ hi <= TitleEnd(vob_lba_offsets[i]))
                   => call.seekFlags = "SEEK_MPEG"
            /\ (\A x \in lo..hi : ~InTitle(x, vob_lba_offsets))
                   => call.seekFlags = "NOFLAGS"
            /\ ~IsTitleStart(lo, vob_lba_offsets) => call.seekFlags # "SEEK_KEY"

\* C14: when read(first_lba, sectors) returns, the count k it returns
\* satisfies 1 <= k <= sectors, k sectors are in the buffer, and the cursor
\* is first_lba + k, whether the call found the cursor at first_lba or
\* elsewhere.
C14_CursorAdvanced ==
    call.outcome = "ok" =>
        /\ 1 <= call.ret
        /\ call.ret <= call.requested
        /\ Len(call.data) = call.ret
        /\ reader_position = call.first_lba + call.ret

C14_Witness ==
    /\ call.outcome = "ok"
    /\ call.seekIssued
    /\ call.first_lba > 0
    /\ call.ret < call.requested
    /\ reader_position = call.first_lba + call.ret

\* the IOErrors of read()
ReadErrors == {"SeekMismatch", "ShortRead"}

\* C15: a seek that lands elsewhere than first_lba makes read() raise without
\* a device read, a device read that returns another count than the clipped
\* one makes it raise; the run of create_backup fails with that error at
\* once, and after it no seek, no read and no write is issued: the device,
\* the cursor and the files stay as they are.
C15_FailFast ==
    /\ [](call.seekIssued /\ call.seekRet # call.first_lba
             => call.outcome = "SeekMismatch" /\ ~call.readIssued)
    /\ [](call.readIssued /\ call.ret # call.sectors
             => call.outcome = "ShortRead")
    /\ [](call.outcome = "ok"
             => /\ call.seekIssued => call.seekRet = call.first_lba
                /\ call.readIssued /\ call.ret = call.sectors)
    /\ [](call.outcome \in ReadErrors
             => \/ run[1].pc = "failed" /\ run[1].err = call.outcome
                \/ run[1].pc = "decode"
                \/ run[1].pc = "failed" /\ run[1].err = "AttributeError")
    /\ [][call.outcome \in ReadErrors
             => UNCHANGED <<deviceVars, reader_position, fileVars, call>>]_vars

C15_Witness ==
    /\ run[1].pc = "failed"
    /\ run[1].err = "ShortRead"
    /\ run[1].writes >= 1
    /\ call.readIssued
    /\ call.ret = call.sectors - 1

\* the VOB entries among the first n entries of the listing
VobsUpTo(n) == {k \in DOMAIN listing : k <= n /\ IsVob(listing[k])}

\* the run of thread 1 has failed to crack a key
KeyCrackFailed == run[1].pc = "failed" /\ run[1].err = "KeyCrack"

\* C16: get_vob_lbas(crack_keys=True) issues one key-crack seek for each VOB
\* entry and none for another entry, in the order of the listing, and goes
\* on to the next entry only when the seek has landed on the entry's lba;
\* when one fails, no seek is issued for a later entry and the TitleMap is
\* not returned.
C16_FailFastKeys ==
    /\ [](run[1].pc = "crack" =>
             /\ run[1].seeks = Cardinality(VobsUpTo(run[1].idx - 1))
             /\ run[1].lba_data =
                    get_vob_lbas(SubSeq(listing, 1, run[1].idx - 1), 1))
    /\ [](KeyCrackFailed =>
             /\ run[1].idx \in DOMAIN listing
             /\ IsVob(listing[run[1].idx])
             /\ run[1].seeks = Cardinality(VobsUpTo(run[1].idx))
             /\ vob_lba_offsets = <<>>)
    /\ [][(run[1].pc = "crack" /\ run[1].idx \in DOMAIN listing) =>
             IF IsVob(listing[run[1].idx])
             THEN \/ /\ run'[1].pc = "crack"
                     /\ run'[1].idx = run[1].idx + 1
                     /\ devPos' = listing[run[1].idx].lba
                  \/ /\ KeyCrackFailed'
                     /\ run'[1].idx = run[1].idx
             ELSE /\ run'[1].pc = "crack"
                  /\ run'[1].idx = run[1].idx + 1
                  /\ UNCHANGED deviceVars]_vars
    /\ [][KeyCrackFailed => UNCHANGED <<deviceVars, vob_lba_offsets>>]_vars

C16_Witness ==
    /\ KeyCrackFailed
    /\ run[1].idx = 1
    /\ run[1].seeks = 1
    /\ Len(listing) = 2
    /\ IsVob(listing[2])

\* the errors that name a failed device or file operation
OperationErrors == {"KeyCrack", "SeekMismatch", "ShortRead", "IOWrite"}

\* C17: on every disc of one sector or more, with every TitleMap and every
\* chunk size, the first run of create_backup ends: with the temporary file
\* renamed to the final path (done), unless a key-crack seek, a seek, a read
\* or a write has failed.
C17_TerminatesDone ==
    <>(\/ run[1].pc = "done"
       \/ run[1].pc = "failed" /\ run[1].err \in OperationErrors)

\* the run of thread 1 has opened the temporary file: it is in its reading
\* loop, or past it, or has left it with an error
InReading ==
    \/ run[1].pc \in {"read", "write", "close", "done"}
    \/ run[1].pc = "failed" /\ run[1].err \in ReadingErrors

\* data holds a sector of the title vob_lba_offset read with READ_DECRYPT
DecryptedOf(data, vob_lba_offset) ==
    \E i \in DOMAIN data :
        /\ data[i].dec
        /\ TitleStart(vob_lba_offset) <= data[i].lba
        /\ data[i].lba <= TitleEnd(vob_lba_offset)

\* C18: in the reading loop of create_backup no chunk reaches over the start
\* of a title: the chunk that holds the start begins there, and that read()
\* call issues a SEEK_KEY seek to it, before any sector of the title is read
\* with READ_DECRYPT; when the loop has ended this has happened for every
\* title that starts on the disc.
C18_KeyBeforeDecrypt ==
    InReading =>
        /\ \A i \in DOMAIN vob_lba_offsets :
              LET title == vob_lba_offsets[i] IN
              /\ TitleStart(title) < run[1].current_lba
                    => TitleStart(title) \in run[1].keyed
              /\ (run[1].pc \in {"close", "done"} /\ TitleStart(title) < space_size)
                    => TitleStart(title) \in run[1].keyed
              /\ (\/ DecryptedOf(tmpFile.data, title)
                  \/ DecryptedOf(finalFile.data, title)
                  \/ DecryptedOf(buffer, title))
                    => TitleStart(title) \in run[1].keyed
        /\ run[1].pc = "write" =>
              /\ call.first_lba = run[1].current_lba
              /\ \A i \in DOMAIN vob_lba_offsets :
                    ~(/\ call.first_lba < TitleStart(vob_lba_offsets[i])
                      /\ TitleStart(vob_lba_offsets[i]) < call.first_lba + call.ret)

C18_Witness ==
    /\ run[1].pc = "done"
    /\ Len(vob_lba_offsets) = 2
    /\ Cardinality(run[1].keyed) = 2
    /\ 0 \notin run[1].keyed
    /\ \E i \in DOMAIN finalFile.data : finalFile.data[i].dec

\* C19: every device read that read(first_lba, ...) issues finds the device
\* at first_lba, in every run of create_backup on the session, although the
\* key-crack seeks move the device and leave the cursor, and a failed read
\* leaves the cursor behind the device; while chunks are read and written
\* the cursor is where the device is.
C19_DeviceAtFirstLba ==
    /\ call.readIssued => call.readAt = call.first_lba
    /\ run[1].pc = "write" => devPos = reader_position

C19_Witness ==
    /\ run[1].pc = "write"
    /\ call.readIssued
    /\ call.first_lba = 0
    /\ call.seekIssued
    /\ call.seekFlags = "NOFLAGS"
    /\ Len(vob_lba_offsets) >= 1
    /\ run[1].seeks >= 2

\* C20: every percentage create_backup reports lies between 0 and 100, the
\* percentages of a run are strictly increasing, and the division that
\* computes them never has last_lba = 0.
C20_ProgressInRange ==
    LET progress == run[1].progress IN
    /\ \A i \in DOMAIN progress : 0 <= progress[i] /\ progress[i] <= 100
    /\ \A i, j \in DOMAIN progress : i < j => progress[i] < progress[j]
    /\ run[1].err # "ZeroDivisionError"

\* this step is a call of open(): it has set what the session records of
\* its last call
OpenCalled == session' # session /\ session'.asked \in Devs

\* C21: open(dev) is rejected only when the session is open and ready on
\* that dev, and a rejection changes nothing of the session; open of another
\* dev than the session's disposes the session (cursor 0, empty TitleMap)
\* and then opens the new one, ready only when the opening succeeds; after
\* an open that failed partway a later open of the same dev is attempted
\* again, not rejected.
C21_OpenDispose ==
    /\ [](session.result = "rejected"
             => session.ready /\ session.asked = session.dev)
    /\ [][(OpenCalled /\ session'.result = "rejected") =>
             /\ session' = [session EXCEPT !.asked = session.dev,
                                           !.result = "rejected"]
             /\ UNCHANGED sessionState]_vars
    /\ [][(OpenCalled /\ HasHandles(session) /\ session'.asked # session.dev) =>
             /\ session'.result \in {"opened", "failed"}
             /\ session'.dev = session'.asked
             /\ session'.ready = (session'.result = "opened")
             /\ reader_position' = 0
             /\ vob_lba_offsets' = <<>>]_vars
    /\ [][(OpenCalled /\ ~session.ready /\ session'.asked = session.dev) =>
             session'.result \in {"opened", "failed"}]_vars

=============================================================================
